---- MODULE Spec2Model ----
(***************************************************************************)
(* RepoPulse: the data aggregator (github_api.py), the health scorer       *)
(* (health_calculator.py) and the session flow of the dashboard (app.py).  *)
(*                                                                         *)
(* Calendar time is counted in whole days.  Scores are fixed-point numbers *)
(* in millionths of a point (25 points = 25000000).  A JSON value that may *)
(* be null is a record with a field "null"; a dictionary is a function     *)
(* over its keys, so `d.get(k, default)` can tell an absent key from a     *)
(* null.                                                                   *)
(***************************************************************************)
EXTENDS Integers, Sequences, FiniteSets, TLC

VARIABLES
    now,        \* the wall clock (datetime.now()), in days
    responses,  \* what the HTTP collaborator answered in the last aggregation
    requests,   \* the requests issued by the last operation, in order
    outcome,    \* how the last get_repository_data call ended
    snapshot,   \* the repository data handed to the scorer
    health,     \* the last calculate_health_score call: its day and its result
    health0,    \* the first calculate_health_score call on the snapshot
    session,    \* st.session_state
    ui,         \* what the last handler showed (st.error / st.success)
    args,       \* the arguments of a function that is called on its own
    result      \* what that call returned

vars == <<now, responses, requests, outcome, snapshot, health, health0, session, ui,
          args, result>>

-----------------------------------------------------------------------------
(* JSON values and Python results *)

None == [null |-> TRUE]
J(x) == [null |-> FALSE, v |-> x]

\* bool(x) of a JSON string: None and "" are falsy
Truthy(x) == ~x.null /\ x.v # ""

\* bool(x) of a JSON timestamp string (never empty)
Present(x) == ~x.null

\* d.get(k, default)
Get(d, k, default) == IF k \in DOMAIN d THEN d[k] ELSE default

Return(v) == [raised |-> FALSE, value |-> v]
Raise(e, m) == [raised |-> TRUE, exc |-> e, msg |-> m]

\* d[k] = v on a dictionary
SetItem(d, k, v) == (k :> v) @@ d

Min(a, b) == IF a <= b THEN a ELSE b
Max(a, b) == IF a >= b THEN a ELSE b

-----------------------------------------------------------------------------
(* github_api.py: parse_repo_url; a string is a sequence of characters *)

\* str.rstrip(chars): drop trailing characters that are in chars
RECURSIVE rstrip(_, _)
rstrip(s, chars) ==
    IF s # <<>> /\ s[Len(s)] \in chars THEN rstrip(SubSeq(s, 1, Len(s) - 1), chars) ELSE s

StartsWith(s, prefix) ==
    Len(s) >= Len(prefix) /\ SubSeq(s, 1, Len(prefix)) = prefix

\* the longest prefix of s without a '/': what [^/]+ consumes
RECURSIVE Segment(_)
Segment(s) ==
    IF s = <<>> \/ Head(s) = "/" THEN <<>> ELSE <<Head(s)>> \o Segment(Tail(s))

HostHttps == <<"h","t","t","p","s",":","/","/","g","i","t","h","u","b",".","c","o","m","/">>
HostHttp == <<"h","t","t","p",":","/","/","g","i","t","h","u","b",".","c","o","m","/">>
HostSsh == <<"g","i","t","@","g","i","t","h","u","b",".","c","o","m",":">>
HostBare == <<"g","i","t","h","u","b",".","c","o","m","/">>

\* re.match of prefix([^/]+)/([^/]+): the two groups, or no match
MatchAfter(url, prefix) ==
    IF ~StartsWith(url, prefix) THEN [matched |-> FALSE]
    ELSE LET rest == SubSeq(url, Len(prefix) + 1, Len(url))
             owner == Segment(rest)
             tail == SubSeq(rest, Len(owner) + 1, Len(rest))
             repo == IF tail = <<>> THEN <<>> ELSE Segment(Tail(tail))
         IN IF owner # <<>> /\ tail # <<>> /\ repo # <<>>
            THEN [matched |-> TRUE, owner |-> owner, repo |-> repo]
            ELSE [matched |-> FALSE]

\* (None, None) is the result with matched = FALSE
parse_repo_url(url) ==
    LET u == rstrip(rstrip(url, {"/"}), {".", "g", "i", "t"})
        https == MatchAfter(u, HostHttps)
        http == MatchAfter(u, HostHttp)
        ssh == MatchAfter(u, HostSsh)
        bare == MatchAfter(u, HostBare)
    IN IF https.matched THEN https
       ELSE IF http.matched THEN http
       ELSE IF ssh.matched THEN ssh
       ELSE bare

-----------------------------------------------------------------------------
(* github_api.py: the HTTP boundary *)

\* A response of requests.get: either the call raises (timeout, DNS,
\* connection reset), or it carries a status code and a body; json_error
\* says that response.json() cannot decode the body.
HttpResponse(status, body) ==
    [exception |-> FALSE, status_code |-> status, json_error |-> FALSE, body |-> body]
NetworkFailure(body) ==
    [exception |-> TRUE, status_code |-> 0, json_error |-> FALSE, body |-> body]
MalformedPayload(body) ==
    [exception |-> FALSE, status_code |-> 200, json_error |-> TRUE, body |-> body]

\* Mutation: the status of the response is never looked at
make_request_no_status(response) ==
    IF response.exception THEN Raise("RequestException", "network")
    ELSE IF response.json_error THEN Raise("JSONDecodeError", "invalid json")
    ELSE Return(response.body)

make_request(response) ==
    IF response.exception THEN Raise("RequestException", "network")
    ELSE IF response.status_code = 404 THEN Raise("ValueError", "Repository not found")
    ELSE IF response.status_code = 403 THEN Raise("ValueError", "API rate limit exceeded")
    ELSE IF response.status_code = 401 THEN Raise("ValueError", "Invalid GitHub token")
    ELSE IF response.status_code >= 400 THEN Raise("ValueError", "GitHub API error")
    ELSE IF response.json_error THEN Raise("JSONDecodeError", "invalid json")
    ELSE Return(response.body)

\* the bodies of the list endpoints: a JSON array, or some other JSON value
ListBody(items) == [isList |-> TRUE, items |-> items]
NonListBody == [isList |-> FALSE, items |-> <<>>]

\* resource paths under /repos/{owner}/{repo}
PathBase == "/repos/{owner}/{repo}"
PathContributors == "/contributors?per_page=1"
PathPullsProbe == "/pulls?state=open&per_page=1"
PathCommits == "/commits?since&per_page=100"
PathIssues == "/issues?since&per_page=100"
PathPullsOpen == "/pulls?state=open&per_page=50"
PathPullsClosed == "/pulls?state=closed&per_page=50"

SupplementaryPaths ==
    {PathContributors, PathPullsProbe, PathCommits, PathIssues,
     PathPullsOpen, PathPullsClosed}

\* the answer to a request that was never issued
NotRequested == [exception |-> FALSE, status_code |-> 0, json_error |-> FALSE, body |-> NonListBody]

-----------------------------------------------------------------------------
(* github_api.py: the three activity fetches *)

WindowDays == 30

\* an ISO timestamp string; `parses` is whether datetime.fromisoformat accepts
\* it (after 'Z' is replaced), tz is "Z" for a UTC suffix and "" for none
Timestamp(day, tz) == [parses |-> TRUE, day |-> day, tz |-> tz]
Garbled == [parses |-> FALSE, day |-> 0, tz |-> ""]

\* commit['commit']['author']['date'][:10]
DateOf(commit) == commit.date.v.day

\* number of commits of the list bucketed under calendar day d
RECURSIVE CommitsOn(_, _)
CommitsOn(commits, d) ==
    IF commits = <<>> THEN 0
    ELSE (IF Present(Head(commits).date) /\ DateOf(Head(commits)) = d THEN 1 ELSE 0)
         + CommitsOn(Tail(commits), d)

\* clock[i] is the day datetime.now() shows in iteration i of the loop
get_commit_activity(response, clock) ==
    LET r == make_request(response) IN
    IF r.raised THEN <<>>
    ELSE IF ~r.value.isList THEN <<>>
    ELSE [j \in 1..WindowDays |->
            LET i == j - 1
                date == clock[i] - ((WindowDays - 1) - i)
            IN [date |-> date, commits |-> CommitsOn(r.value.items, date)]]

\* Mutation: the marker is tested for truth instead of presence
get_recent_issues_truthy_marker(response) ==
    LET r == make_request(response) IN
    IF r.raised THEN <<>>
    ELSE IF ~r.value.isList THEN <<>>
    ELSE SelectSeq(r.value.items,
                   LAMBDA issue : ~Present(Get(issue, "pull_request", None)))

get_recent_issues(response) ==
    LET r == make_request(response) IN
    IF r.raised THEN <<>>
    ELSE IF ~r.value.isList THEN <<>>
    ELSE SelectSeq(r.value.items, LAMBDA issue : "pull_request" \notin DOMAIN issue)

\* The loop over all_pulls raises, and the handler returns [], when a
\* created_at does not parse (ValueError) or parses to an offset-aware
\* datetime, which cannot be compared with the naive cutoff (TypeError).
PullRaises(pr) ==
    /\ Present(Get(pr, "created_at", None))
    /\ \/ ~pr.created_at.v.parses
       \/ pr.created_at.v.tz # ""

DefaultDays == 30

PullIsRecent(pr, today, days) ==
    /\ Present(Get(pr, "created_at", None))
    /\ pr.created_at.v.day >= today - days

\* Mutation: a failed fetch of the closed pull requests is tried once more
get_recent_pulls_retry(respOpen, respClosed, today) ==
    LET pulls_open == make_request(respOpen)
        pulls_closed == make_request(respClosed)
    IN
    IF pulls_open.raised THEN [value |-> <<>>, log |-> <<PathPullsOpen>>]
    ELSE IF pulls_closed.raised
    THEN [value |-> <<>>, log |-> <<PathPullsOpen, PathPullsClosed, PathPullsClosed>>]
    ELSE
      LET all_pulls ==
              (IF pulls_open.value.isList THEN pulls_open.value.items ELSE <<>>)
              \o (IF pulls_closed.value.isList THEN pulls_closed.value.items ELSE <<>>)
      IN [value |-> IF \E k \in 1..Len(all_pulls) : PullRaises(all_pulls[k])
                    THEN <<>>
                    ELSE SelectSeq(all_pulls, LAMBDA pr : PullIsRecent(pr, today, DefaultDays)),
          log |-> <<PathPullsOpen, PathPullsClosed>>]

\* returns the list and the requests it issued
get_recent_pulls(respOpen, respClosed, today) ==
    LET pulls_open == make_request(respOpen)
        pulls_closed == make_request(respClosed)
    IN
    IF pulls_open.raised THEN [value |-> <<>>, log |-> <<PathPullsOpen>>]
    ELSE IF pulls_closed.raised
    THEN [value |-> <<>>, log |-> <<PathPullsOpen, PathPullsClosed>>]
    ELSE
      LET all_pulls ==
              (IF pulls_open.value.isList THEN pulls_open.value.items ELSE <<>>)
              \o (IF pulls_closed.value.isList THEN pulls_closed.value.items ELSE <<>>)
      IN [value |-> IF \E k \in 1..Len(all_pulls) : PullRaises(all_pulls[k])
                    THEN <<>>
                    ELSE SelectSeq(all_pulls, LAMBDA pr : PullIsRecent(pr, today, DefaultDays)),
          log |-> <<PathPullsOpen, PathPullsClosed>>]

-----------------------------------------------------------------------------
(* github_api.py: get_repository_data *)

\* Mutation: the length is taken one too large
ListLen_off_by_one(body) == IF body.isList THEN Len(body.items) + 1 ELSE 0

\* len(x) if isinstance(x, list) else 0
ListLen(body) == IF body.isList THEN Len(body.items) ELSE 0

\* Mutation: the handler forgets recent_prs
Degraded_no_recent_prs(repo_data) ==
    SetItem(SetItem(SetItem(SetItem(repo_data,
        "contributors_count", J(0)),
        "open_prs_count", J(0)),
        "commit_activity", <<>>),
        "recent_issues", <<>>)

\* the handler of lines 114-121: every supplementary field at its default
Degraded(repo_data) ==
    SetItem(SetItem(SetItem(SetItem(SetItem(repo_data,
        "contributors_count", J(0)),
        "open_prs_count", J(0)),
        "commit_activity", <<>>),
        "recent_issues", <<>>),
        "recent_prs", <<>>)

\* resp holds the collaborator's answer to each request; clock[i] is the day
\* the clock shows in iteration i of the commit loop, and clock[WindowDays - 1]
\* the day it shows from then on.  The result carries the requests issued.
get_repository_data(resp, clock) ==
    LET base == make_request(resp.base)
        contributors == make_request(resp.contributors)
        pulls == make_request(resp.pulls_probe)
        commit_activity == get_commit_activity(resp.commits, clock)
        recent_issues == get_recent_issues(resp.issues)
        recent_prs == get_recent_pulls(resp.pulls_open, resp.pulls_closed,
                                       clock[WindowDays - 1])
    IN
    IF base.raised
    THEN [raised |-> TRUE, exc |-> base.exc, msg |-> base.msg, log |-> <<PathBase>>]
    ELSE IF contributors.raised
    THEN [raised |-> FALSE, data |-> Degraded(base.value),
          log |-> <<PathBase, PathContributors>>]
    ELSE IF pulls.raised
    THEN [raised |-> FALSE, data |-> Degraded(base.value),
          log |-> <<PathBase, PathContributors, PathPullsProbe>>]
    ELSE [raised |-> FALSE,
          data |-> SetItem(SetItem(SetItem(SetItem(SetItem(base.value,
                      "contributors_count", J(ListLen(contributors.value))),
                      "open_prs_count", J(ListLen(pulls.value))),
                      "commit_activity", commit_activity),
                      "recent_issues", recent_issues),
                      "recent_prs", recent_prs.value),
          log |-> <<PathBase, PathContributors, PathPullsProbe, PathCommits, PathIssues>>
                  \o recent_prs.log]

-----------------------------------------------------------------------------
(* health_calculator.py *)

\* num/den points as a fixed-point score
Pts(num, den) == (num * 1000000) \div den

\* math.log(n) in millionths, rounded down, for n = 1 .. 160
LnTable ==
    <<
      0, 693147, 1098612, 1386294, 1609437, 1791759, 1945910, 2079441,
      2197224, 2302585, 2397895, 2484906, 2564949, 2639057, 2708050, 2772588,
      2833213, 2890371, 2944438, 2995732, 3044522, 3091042, 3135494, 3178053,
      3218875, 3258096, 3295836, 3332204, 3367295, 3401197, 3433987, 3465735,
      3496507, 3526360, 3555348, 3583518, 3610917, 3637586, 3663561, 3688879,
      3713572, 3737669, 3761200, 3784189, 3806662, 3828641, 3850147, 3871201,
      3891820, 3912023, 3931825, 3951243, 3970291, 3988984, 4007333, 4025351,
      4043051, 4060443, 4077537, 4094344, 4110873, 4127134, 4143134, 4158883,
      4174387, 4189654, 4204692, 4219507, 4234106, 4248495, 4262679, 4276666,
      4290459, 4304065, 4317488, 4330733, 4343805, 4356708, 4369447, 4382026,
      4394449, 4406719, 4418840, 4430816, 4442651, 4454347, 4465908, 4477336,
      4488636, 4499809, 4510859, 4521788, 4532599, 4543294, 4553876, 4564348,
      4574710, 4584967, 4595119, 4605170, 4615120, 4624972, 4634728, 4644390,
      4653960, 4663439, 4672828, 4682131, 4691347, 4700480, 4709530, 4718498,
      4727387, 4736198, 4744932, 4753590, 4762173, 4770684, 4779123, 4787491,
      4795790, 4804021, 4812184, 4820281, 4828313, 4836281, 4844187, 4852030,
      4859812, 4867534, 4875197, 4882801, 4890349, 4897839, 4905274, 4912654,
      4919980, 4927253, 4934473, 4941642, 4948759, 4955827, 4962844, 4969813,
      4976733, 4983606, 4990432, 4997212, 5003946, 5010635, 5017279, 5023880,
      5030437, 5036952, 5043425, 5049856, 5056245, 5062595, 5068904, 5075173
    >>

\* math.log(n) in millionths, rounded down
LnMicro(n) ==
    IF n <= Len(LnTable) THEN LnTable[n]
    ELSE
    CASE n = 161 -> 5081404
      [] n = 201 -> 5303304
      [] n = 202 -> 5308267
      [] n = 501 -> 6216606
      [] n = 502 -> 6218600
      [] n = 1001 -> 6908754
      [] n = 1002 -> 6909753
      [] n = 22026 -> 9999978
      [] n = 22027 -> 10000024
      [] n = 22028 -> 10000069
      [] n = 30001 -> 10308985
      [] n = 30002 -> 10309019
      [] n = 100001 -> 11512935

\* `x > 0` and the other order comparisons of a JSON number with a number
\* raise TypeError on None
IsNone(x) == x.null

RECURSIVE TotalCommits(_)
TotalCommits(commit_activity) ==
    IF commit_activity = <<>> THEN 0
    ELSE Head(commit_activity).commits + TotalCommits(Tail(commit_activity))

CommitScore(total_commits) ==
    IF total_commits > 0 THEN Min(Pts(10, 1), LnMicro(total_commits + 1) * 2) ELSE 0

_calculate_activity_score(repo_data) ==
    LET commit_activity == Get(repo_data, "commit_activity", <<>>)
        total_commits == TotalCommits(commit_activity)
        recent_issues == Get(repo_data, "recent_issues", <<>>)
        recent_prs == Get(repo_data, "recent_prs", <<>>)
        issue_score == IF recent_issues # <<>>
                       THEN Min(Pts(8, 1), Len(recent_issues) * Pts(1, 2)) ELSE 0
        pr_score == IF recent_prs # <<>>
                    THEN Min(Pts(7, 1), Len(recent_prs) * Pts(7, 10)) ELSE 0
    IN Return(Min(Pts(25, 1), CommitScore(total_commits) + issue_score + pr_score))

\* Mutation: the star term without its cap
StarScore_uncapped(stars) == IF stars > 0 THEN (LnMicro(stars + 1) * 3) \div 2 ELSE 0

\* Mutation: beyond the cap the star term is 10 instead of 15
StarScore_wrong_cap(stars) ==
    IF stars > 0
    THEN IF (LnMicro(stars + 1) * 3) \div 2 > Pts(15, 1) THEN Pts(10, 1)
         ELSE (LnMicro(stars + 1) * 3) \div 2
    ELSE 0

StarScore(stars) == IF stars > 0 THEN Min(Pts(15, 1), (LnMicro(stars + 1) * 3) \div 2) ELSE 0
ForkScore(forks) == IF forks > 0 THEN Min(Pts(6, 1), (LnMicro(forks + 1) * 6) \div 5) ELSE 0
WatcherScore(watchers) ==
    IF watchers > 0 THEN Min(Pts(4, 1), (LnMicro(watchers + 1) * 4) \div 5) ELSE 0

_calculate_popularity_score(repo_data) ==
    LET stars == Get(repo_data, "stargazers_count", J(0))
        forks == Get(repo_data, "forks_count", J(0))
        watchers == Get(repo_data, "watchers_count", J(0))
    IN
    IF IsNone(stars) \/ IsNone(forks) \/ IsNone(watchers)
    THEN Raise("TypeError", "'>' not supported between NoneType and int")
    ELSE Return(StarScore(stars.v) + ForkScore(forks.v) + WatcherScore(watchers.v))

\* Mutation: math.log(contributors + 1)
ContributorScore_plus_one(contributors) ==
    IF contributors > 0 THEN Min(Pts(15, 1), LnMicro(contributors + 1) * 3) ELSE 0

ContributorScore(contributors) ==
    IF contributors > 0 THEN Min(Pts(15, 1), LnMicro(contributors) * 3) ELSE 0

\* Mutation: the bounds 2 and 10 of the good ratio are exclusive
RatioScore_exclusive(stars, forks) ==
    IF forks > 0 /\ stars > 0
    THEN IF 2 * forks < stars /\ stars < 10 * forks THEN Pts(5, 1)
         ELSE IF (forks <= stars /\ stars <= 2 * forks)
                 \/ (10 * forks <= stars /\ stars <= 20 * forks) THEN Pts(3, 1)
         ELSE Pts(1, 1)
    ELSE IF stars > 0 THEN Pts(2, 1)
    ELSE 0

\* ratio = stars / forks compared without dividing
RatioScore(stars, forks) ==
    IF forks > 0 /\ stars > 0
    THEN IF 2 * forks <= stars /\ stars <= 10 * forks THEN Pts(5, 1)
         ELSE IF (forks <= stars /\ stars < 2 * forks)
                 \/ (10 * forks < stars /\ stars <= 20 * forks) THEN Pts(3, 1)
         ELSE Pts(1, 1)
    ELSE IF stars > 0 THEN Pts(2, 1)
    ELSE 0

Count(flag) == IF flag THEN 1 ELSE 0

_calculate_community_score(repo_data) ==
    LET contributors == Get(repo_data, "contributors_count", J(0))
        stars == Get(repo_data, "stargazers_count", J(0))
        forks == Get(repo_data, "forks_count", J(0))
        has_wiki == Get(repo_data, "has_wiki", FALSE)
        has_issues == Get(repo_data, "has_issues", FALSE)
        has_projects == Get(repo_data, "has_projects", FALSE)
        has_pages == Get(repo_data, "has_pages", FALSE)
        feature_score ==
            (Count(has_wiki) + Count(has_issues) + Count(has_projects) + Count(has_pages))
            * Pts(5, 4)
    IN
    IF IsNone(contributors) \/ IsNone(forks) \/ IsNone(stars)
    THEN Raise("TypeError", "'>' not supported between NoneType and int")
    ELSE Return(Min(Pts(25, 1),
                    ContributorScore(contributors.v) + RatioScore(stars.v, forks.v)
                    + feature_score))

\* the recency term; updated_at is None, or a string that may not parse
RecencyScore(updated_at, today) ==
    IF ~Present(updated_at) THEN 0
    ELSE IF ~updated_at.v.parses THEN 0
    ELSE LET days_since_update == today - updated_at.v.day IN
         IF days_since_update <= 7 THEN Pts(10, 1)
         ELSE IF days_since_update <= 30 THEN Pts(8, 1)
         ELSE IF days_since_update <= 90 THEN Pts(5, 1)
         ELSE IF days_since_update <= 365 THEN Pts(2, 1)
         ELSE 0

\* expected_issues = max(1, stars * 0.01), compared in hundredths
\* Mutation: no points for a repository without open issues
IssueLoadScore_no_bonus(open_issues, stars) ==
    IF open_issues = 0 THEN 0
    ELSE LET expected_issues == Max(100, stars) IN
         IF 100 * open_issues <= expected_issues THEN Pts(8, 1)
         ELSE IF 100 * open_issues <= expected_issues * 2 THEN Pts(5, 1)
         ELSE IF 100 * open_issues <= expected_issues * 5 THEN Pts(2, 1)
         ELSE 0

\* Mutation: stars // 100, a whole number of expected issues
IssueLoadScore_whole_expected(open_issues, stars) ==
    IF open_issues = 0 THEN Pts(10, 1)
    ELSE LET expected_issues == Max(100, (stars \div 100) * 100) IN
         IF 100 * open_issues <= expected_issues THEN Pts(8, 1)
         ELSE IF 100 * open_issues <= expected_issues * 2 THEN Pts(5, 1)
         ELSE IF 100 * open_issues <= expected_issues * 5 THEN Pts(2, 1)
         ELSE 0

IssueLoadScore(open_issues, stars) ==
    IF open_issues = 0 THEN Pts(10, 1)
    ELSE LET expected_issues == Max(100, stars) IN
         IF 100 * open_issues <= expected_issues THEN Pts(8, 1)
         ELSE IF 100 * open_issues <= expected_issues * 2 THEN Pts(5, 1)
         ELSE IF 100 * open_issues <= expected_issues * 5 THEN Pts(2, 1)
         ELSE 0

IndicatorScore(archived, has_license, has_description) ==
    (IF ~archived THEN Pts(2, 1) ELSE 0)
    + (IF has_license THEN Pts(3, 2) ELSE 0)
    + (IF has_description THEN Pts(3, 2) ELSE 0)

_calculate_maintenance_score(repo_data, today) ==
    LET updated_at == Get(repo_data, "updated_at", None)
        open_issues == Get(repo_data, "open_issues_count", J(0))
        stars == Get(repo_data, "stargazers_count", J(0))
        archived == Get(repo_data, "archived", FALSE)
        has_license == ~Get(repo_data, "license", None).null
        has_description == Truthy(Get(repo_data, "description", None))
    IN
    IF IsNone(open_issues) \/ (open_issues.v # 0 /\ IsNone(stars))
    THEN Raise("TypeError", "unsupported operand for NoneType")
    ELSE Return(Min(Pts(25, 1),
                    RecencyScore(updated_at, today)
                    + IssueLoadScore(open_issues.v, IF IsNone(stars) THEN 0 ELSE stars.v)
                    + IndicatorScore(archived, has_license, has_description)))

\* Mutation: the weights rebalanced towards activity, still summing to 1
weights_rebalanced ==
    [activity |-> [num |-> 2, den |-> 4], popularity |-> [num |-> 1, den |-> 4],
     community |-> [num |-> 1, den |-> 4], maintenance |-> [num |-> 0, den |-> 4]]

\* self.weights: each weight is 0.25, held as a fraction
weights ==
    [activity |-> [num |-> 1, den |-> 4], popularity |-> [num |-> 1, den |-> 4],
     community |-> [num |-> 1, den |-> 4], maintenance |-> [num |-> 1, den |-> 4]]

\* score * weight * 4
Weighted(score, weight) == (score * weight.num * 4) \div weight.den

\* today is the day the clock shows during the call
calculate_health_score(repo_data, today) ==
    LET activity_score == _calculate_activity_score(repo_data)
        popularity_score == _calculate_popularity_score(repo_data)
        community_score == _calculate_community_score(repo_data)
        maintenance_score == _calculate_maintenance_score(repo_data, today)
    IN
    IF activity_score.raised THEN activity_score
    ELSE IF popularity_score.raised THEN popularity_score
    ELSE IF community_score.raised THEN community_score
    ELSE IF maintenance_score.raised THEN maintenance_score
    ELSE LET total_score ==
                 Weighted(activity_score.value, weights.activity)
                 + Weighted(popularity_score.value, weights.popularity)
                 + Weighted(community_score.value, weights.community)
                 + Weighted(maintenance_score.value, weights.maintenance)
         IN Return([total_score |-> Min(Pts(100, 1), Max(0, total_score)),
                    activity_score |-> activity_score.value,
                    popularity_score |-> popularity_score.value,
                    community_score |-> community_score.value,
                    maintenance_score |-> maintenance_score.value])

-----------------------------------------------------------------------------
(* What the HTTP collaborator may answer *)

MaxCommits == 1
MaxIssues == 1
MaxPulls == 1
MaxTicks == 2

SeqsUpTo(S, n) == UNION {[1..k -> S] : k \in 0..n}

\* the repository metadata object
Payload(stars, forks, watchers, open_issues, flag, archived, license, description, updated_at) ==
    [stargazers_count |-> stars, forks_count |-> forks, watchers_count |-> watchers,
     open_issues_count |-> open_issues,
     has_wiki |-> flag, has_issues |-> flag, has_projects |-> flag, has_pages |-> flag,
     archived |-> archived, license |-> license, description |-> description,
     updated_at |-> updated_at]

\* a repository as the platform documents it, updated `age` days before today
PlainPayload(today, age) ==
    Payload(J(1000), J(100), J(500), J(5), TRUE, FALSE, J("MIT"), J("text"),
            J(Timestamp(today - age, "Z")))

\* failures of a request: an HTTP error status, a transport failure, a body
\* that is not JSON
Failures(body) == {HttpResponse(403, body), NetworkFailure(body), MalformedPayload(body)}
BaseFailures(body) ==
    {HttpResponse(404, body), HttpResponse(403, body), HttpResponse(401, body),
     HttpResponse(500, body), NetworkFailure(body), MalformedPayload(body)}

\* a page-size-1 probe returns at most one element
ProbeAnswers ==
    {HttpResponse(200, NonListBody), HttpResponse(200, ListBody(<<>>)),
     HttpResponse(200, ListBody(<<[id |-> 1]>>))}

CommitItems(today) ==
    {[date |-> None], [date |-> J(Timestamp(today, "Z"))]}
CommitAnswers(today) ==
    {HttpResponse(200, NonListBody)}
    \cup {HttpResponse(200, ListBody(c)) : c \in SeqsUpTo(CommitItems(today), MaxCommits)}

IssueItems == {[id |-> 1], [id |-> 2, pull_request |-> "url"]}
IssueAnswers ==
    {HttpResponse(200, NonListBody)}
    \cup {HttpResponse(200, ListBody(i)) : i \in SeqsUpTo(IssueItems, MaxIssues)}

PullItems(today) ==
    {[id |-> 3, created_at |-> J(Timestamp(today - 1, "Z"))],
     [id |-> 4, created_at |-> J(Timestamp(today - 1, ""))]}
PullAnswers(today) ==
    {HttpResponse(200, NonListBody)}
    \cup {HttpResponse(200, ListBody(p)) : p \in SeqsUpTo(PullItems(today), MaxPulls)}

Responses(base, contributors, pulls_probe, commits, issues, pulls_open, pulls_closed) ==
    [base |-> base, contributors |-> contributors, pulls_probe |-> pulls_probe,
     commits |-> commits, issues |-> issues,
     pulls_open |-> pulls_open, pulls_closed |-> pulls_closed]

\* Every way one aggregation can go, by how far it gets: a request that is
\* not issued has no answer.
FetchScenarios(today) ==
    LET ok == HttpResponse(200, PlainPayload(today, 2))
        NR == NotRequested
        PullPairs ==
            {<<o, NR>> : o \in Failures(NonListBody)}
            \cup (PullAnswers(today) \X (Failures(NonListBody) \cup PullAnswers(today)))
    IN
    {Responses(b, NR, NR, NR, NR, NR, NR) : b \in BaseFailures(PlainPayload(today, 2))}
    \cup {Responses(ok, c, NR, NR, NR, NR, NR) : c \in Failures(NonListBody)}
    \cup {Responses(ok, c, p, NR, NR, NR, NR) :
            c \in ProbeAnswers, p \in Failures(NonListBody)}
    \cup {Responses(ok, c, p, m, i, pp[1], pp[2]) :
            c \in ProbeAnswers, p \in ProbeAnswers,
            m \in Failures(NonListBody) \cup CommitAnswers(today),
            i \in Failures(NonListBody) \cup IssueAnswers,
            pp \in PullPairs}

\* the clock readings of one aggregation that starts on day `today`; midnight
\* is the iteration of the commit loop before which the date changes
\* (WindowDays: it does not change during the call)
ClockReads(today, midnight) ==
    [i \in 0..(WindowDays - 1) |-> IF i >= midnight THEN today + 1 ELSE today]

Midnights == {WindowDays, WindowDays \div 2}

-----------------------------------------------------------------------------
(* State *)

Idle == [status |-> "idle"]
NoResponses == Responses(NotRequested, NotRequested, NotRequested, NotRequested,
                         NotRequested, NotRequested, NotRequested)
NoSession ==
    [repo_data |-> None, health_score |-> None, comparison_mode |-> FALSE,
     repo_data_1 |-> None, health_score_1 |-> None,
     repo_data_2 |-> None, health_score_2 |-> None]

NoUi == [op |-> "start", urls |-> <<>>, shown |-> "welcome"]

\* one call of get_repository_data
Aggregate ==
    /\ outcome.status = "idle"
    /\ \E midnight \in Midnights : \E resp \in FetchScenarios(now) :
         LET r == get_repository_data(resp, ClockReads(now, midnight)) IN
         /\ responses' = resp
         /\ requests' = r.log
         /\ outcome' = IF r.raised
                       THEN [status |-> "raised", exc |-> r.exc, msg |-> r.msg]
                       ELSE [status |-> "returned", data |-> r.data]
         /\ now' = ClockReads(now, midnight)[WindowDays - 1]
    /\ UNCHANGED <<snapshot, health, health0, session, ui, args, result>>

\* a day passes
Tick ==
    /\ now < MaxTicks
    /\ now' = now + 1
    /\ UNCHANGED <<responses, requests, outcome, snapshot, health, health0, session, ui, args, result>>

InitFetch ==
    /\ now = 0
    /\ responses = NoResponses
    /\ requests = <<>>
    /\ outcome = Idle
    /\ snapshot = None
    /\ health = None
    /\ health0 = None
    /\ session = NoSession
    /\ ui = NoUi
    /\ args = None
    /\ result = None

NextFetch == Aggregate

SpecFetch == InitFetch /\ [][NextFetch]_vars

-----------------------------------------------------------------------------
(* The scorer on its own: a snapshot, scored at any time, any number of times *)

\* days between updated_at and day 0
UpdatedAges == {6, 364, 400}

StarValues == {None, J(0), J(1000), J(30000)}
ForkValues == {J(0), J(200)}
WatcherValues == {J(0), J(500)}
OpenIssueValues == {None, J(0), J(60)}

\* archived, license, description
Indicators ==
    {<<FALSE, None, None>>, <<FALSE, J("MIT"), J("text")>>,
     <<FALSE, J("MIT"), None>>, <<TRUE, None, J("")>>}

UpdatedValues == {None, J(Garbled)} \cup {J(Timestamp(0 - a, "Z")) : a \in UpdatedAges}

ScorePayloads ==
    {Payload(s, f, w, o, flag, ind[1], ind[2], ind[3], u) :
        s \in StarValues, f \in ForkValues, w \in WatcherValues, o \in OpenIssueValues,
        flag \in BOOLEAN, ind \in Indicators, u \in UpdatedValues}

\* an aggregation in which every supplementary fetch fails, and one in which
\* every one of them finds something
ScoreScenarios ==
    LET one == HttpResponse(200, ListBody(<<[id |-> 1]>>))
        commit == HttpResponse(200, ListBody(<<[date |-> J(Timestamp(0, "Z"))]>>))
        pull == HttpResponse(200, ListBody(<<[id |-> 4, created_at |-> J(Timestamp(0 - 1, ""))]>>))
        down == NetworkFailure(NonListBody)
    IN
    {Responses(HttpResponse(200, p), down, NotRequested, NotRequested, NotRequested,
               NotRequested, NotRequested) : p \in ScorePayloads}
    \cup {Responses(HttpResponse(200, p), one, one, commit, one, pull, pull) :
               p \in ScorePayloads}

\* a repository with n contributors and enough recent activity to reach the
\* cap of every activity term
BusySnapshot(payload, n) ==
    SetItem(SetItem(SetItem(SetItem(SetItem(payload,
        "contributors_count", J(n)),
        "open_prs_count", J(1)),
        "commit_activity",
            [j \in 1..WindowDays |->
                [date |-> j - WindowDays, commits |-> IF j = WindowDays THEN 200 ELSE 0]]),
        "recent_issues", [k \in 1..100 |-> [id |-> k]]),
        "recent_prs", [k \in 1..100 |-> [id |-> k, created_at |-> J(Timestamp(0 - 1, ""))]])

BusySnapshots ==
    {BusySnapshot(Payload(s, f, w, J(0), TRUE, FALSE, J("MIT"), J("text"),
                          J(Timestamp(0 - 6, "Z"))), n) :
        s \in StarValues \ {None}, f \in ForkValues, w \in WatcherValues,
        n \in {1, 2, 50, 160}}

InitScore ==
    /\ now = 0
    /\ requests = <<>>
    /\ health = None
    /\ health0 = None
    /\ session = NoSession
    /\ ui = NoUi
    /\ args = None
    /\ result = None
    /\ \/ \E resp \in ScoreScenarios :
            LET r == get_repository_data(resp, ClockReads(0, WindowDays)) IN
            /\ responses = resp
            /\ outcome = [status |-> "returned", data |-> r.data]
            /\ snapshot = r.data
       \/ /\ responses = NoResponses
          /\ outcome = Idle
          /\ snapshot \in BusySnapshots

\* one call of calculate_health_score on the snapshot
Score ==
    /\ health' = [day |-> now, result |-> calculate_health_score(snapshot, now)]
    /\ health0' = IF health0 = None THEN health' ELSE health0
    /\ UNCHANGED <<now, responses, requests, outcome, snapshot, session, ui, args, result>>

NextScore == Score \/ Tick

SpecScore == InitScore /\ [][NextScore]_vars

-----------------------------------------------------------------------------
(* app.py: the handlers and the session *)

\* the requests of one aggregation, with the repository they are about
Tagged(log, parsed) ==
    LET owner == parsed.owner
        repo == parsed.repo
        issued == log
    IN [k \in 1..Len(issued) |-> [owner |-> owner, repo |-> repo, path |-> issued[k]]]

\* the except clauses of the two handlers
ErrorShown(exc) ==
    IF exc = "RequestException" THEN "error: Network error"
    ELSE IF exc \in {"ValueError", "JSONDecodeError"} THEN "error: API"
    ELSE "error: Unexpected error"

\* Mutation: the repository data is stored before the score is computed
analyze_repository_store_early(repo_url, resp, st, today) ==
    LET parsed == parse_repo_url(repo_url)
        r == get_repository_data(resp, ClockReads(today, WindowDays))
        health_score == calculate_health_score(r.data, today)
    IN
    IF ~parsed.matched
    THEN [session |-> st, shown |-> "error: Invalid GitHub repository URL", log |-> <<>>]
    ELSE IF r.raised
    THEN [session |-> st, shown |-> ErrorShown(r.exc), log |-> Tagged(r.log, parsed)]
    ELSE IF health_score.raised
    THEN [session |-> [st EXCEPT !.repo_data = r.data],
          shown |-> ErrorShown(health_score.exc),
          log |-> Tagged(r.log, parsed)]
    ELSE [session |-> [st EXCEPT !.repo_data = r.data,
                                 !.health_score = health_score.value],
          shown |-> "success: Repository analysis completed",
          log |-> Tagged(r.log, parsed)]

\* result: the session state it leaves, what it shows, the requests it made
analyze_repository(repo_url, resp, st, today) ==
    LET parsed == parse_repo_url(repo_url)
        r == get_repository_data(resp, ClockReads(today, WindowDays))
        health_score == calculate_health_score(r.data, today)
    IN
    IF ~parsed.matched
    THEN [session |-> st, shown |-> "error: Invalid GitHub repository URL", log |-> <<>>]
    ELSE IF r.raised
    THEN [session |-> st, shown |-> ErrorShown(r.exc), log |-> Tagged(r.log, parsed)]
    ELSE IF health_score.raised
    THEN [session |-> st, shown |-> ErrorShown(health_score.exc),
          log |-> Tagged(r.log, parsed)]
    ELSE [session |-> [st EXCEPT !.repo_data = r.data,
                                 !.health_score = health_score.value],
          shown |-> "success: Repository analysis completed",
          log |-> Tagged(r.log, parsed)]

\* Mutation: the first repository's result is stored before the second
\* repository is fetched
compare_repositories_store_first(repo_url_1, repo_url_2, resp_1, resp_2, st, today) ==
    LET parsed_1 == parse_repo_url(repo_url_1)
        parsed_2 == parse_repo_url(repo_url_2)
        r_1 == get_repository_data(resp_1, ClockReads(today, WindowDays))
        r_2 == get_repository_data(resp_2, ClockReads(today, WindowDays))
        health_score_1 == calculate_health_score(r_1.data, today)
        health_score_2 == calculate_health_score(r_2.data, today)
        st_1 == [st EXCEPT !.repo_data_1 = r_1.data,
                           !.health_score_1 = health_score_1.value]
    IN
    IF ~parsed_1.matched
    THEN [session |-> st, shown |-> "error: Invalid first repository URL", log |-> <<>>]
    ELSE IF ~parsed_2.matched
    THEN [session |-> st, shown |-> "error: Invalid second repository URL", log |-> <<>>]
    ELSE IF r_1.raised
    THEN [session |-> st, shown |-> ErrorShown(r_1.exc), log |-> Tagged(r_1.log, parsed_1)]
    ELSE IF health_score_1.raised
    THEN [session |-> st, shown |-> ErrorShown(health_score_1.exc),
          log |-> Tagged(r_1.log, parsed_1)]
    ELSE IF r_2.raised
    THEN [session |-> st_1, shown |-> ErrorShown(r_2.exc),
          log |-> Tagged(r_1.log, parsed_1) \o Tagged(r_2.log, parsed_2)]
    ELSE IF health_score_2.raised
    THEN [session |-> st_1, shown |-> ErrorShown(health_score_2.exc),
          log |-> Tagged(r_1.log, parsed_1) \o Tagged(r_2.log, parsed_2)]
    ELSE [session |-> [st_1 EXCEPT !.repo_data_2 = r_2.data,
                                   !.health_score_2 = health_score_2.value],
          shown |-> "success: Repository comparison completed",
          log |-> Tagged(r_1.log, parsed_1) \o Tagged(r_2.log, parsed_2)]

\* Mutation: the first repository is fetched before the second URL is parsed
compare_repositories_eager(repo_url_1, repo_url_2, resp_1, resp_2, st, today) ==
    LET parsed_1 == parse_repo_url(repo_url_1)
        parsed_2 == parse_repo_url(repo_url_2)
        r_1 == get_repository_data(resp_1, ClockReads(today, WindowDays))
        r_2 == get_repository_data(resp_2, ClockReads(today, WindowDays))
        health_score_1 == calculate_health_score(r_1.data, today)
        health_score_2 == calculate_health_score(r_2.data, today)
    IN
    IF ~parsed_1.matched
    THEN [session |-> st, shown |-> "error: Invalid first repository URL", log |-> <<>>]
    ELSE IF r_1.raised
    THEN [session |-> st, shown |-> ErrorShown(r_1.exc), log |-> Tagged(r_1.log, parsed_1)]
    ELSE IF ~parsed_2.matched
    THEN [session |-> st, shown |-> "error: Invalid second repository URL",
          log |-> Tagged(r_1.log, parsed_1)]
    ELSE IF r_2.raised
    THEN [session |-> st, shown |-> ErrorShown(r_2.exc),
          log |-> Tagged(r_1.log, parsed_1) \o Tagged(r_2.log, parsed_2)]
    ELSE IF health_score_1.raised
    THEN [session |-> st, shown |-> ErrorShown(health_score_1.exc),
          log |-> Tagged(r_1.log, parsed_1) \o Tagged(r_2.log, parsed_2)]
    ELSE IF health_score_2.raised
    THEN [session |-> st, shown |-> ErrorShown(health_score_2.exc),
          log |-> Tagged(r_1.log, parsed_1) \o Tagged(r_2.log, parsed_2)]
    ELSE [session |-> [st EXCEPT !.repo_data_1 = r_1.data,
                                 !.health_score_1 = health_score_1.value,
                                 !.repo_data_2 = r_2.data,
                                 !.health_score_2 = health_score_2.value],
          shown |-> "success: Repository comparison completed",
          log |-> Tagged(r_1.log, parsed_1) \o Tagged(r_2.log, parsed_2)]

compare_repositories(repo_url_1, repo_url_2, resp_1, resp_2, st, today) ==
    LET parsed_1 == parse_repo_url(repo_url_1)
        parsed_2 == parse_repo_url(repo_url_2)
        r_1 == get_repository_data(resp_1, ClockReads(today, WindowDays))
        r_2 == get_repository_data(resp_2, ClockReads(today, WindowDays))
        health_score_1 == calculate_health_score(r_1.data, today)
        health_score_2 == calculate_health_score(r_2.data, today)
    IN
    IF ~parsed_1.matched
    THEN [session |-> st, shown |-> "error: Invalid first repository URL", log |-> <<>>]
    ELSE IF ~parsed_2.matched
    THEN [session |-> st, shown |-> "error: Invalid second repository URL", log |-> <<>>]
    ELSE IF r_1.raised
    THEN [session |-> st, shown |-> ErrorShown(r_1.exc), log |-> Tagged(r_1.log, parsed_1)]
    ELSE IF r_2.raised
    THEN [session |-> st, shown |-> ErrorShown(r_2.exc),
          log |-> Tagged(r_1.log, parsed_1) \o Tagged(r_2.log, parsed_2)]
    ELSE IF health_score_1.raised
    THEN [session |-> st, shown |-> ErrorShown(health_score_1.exc),
          log |-> Tagged(r_1.log, parsed_1) \o Tagged(r_2.log, parsed_2)]
    ELSE IF health_score_2.raised
    THEN [session |-> st, shown |-> ErrorShown(health_score_2.exc),
          log |-> Tagged(r_1.log, parsed_1) \o Tagged(r_2.log, parsed_2)]
    ELSE [session |-> [st EXCEPT !.repo_data_1 = r_1.data,
                                 !.health_score_1 = health_score_1.value,
                                 !.repo_data_2 = r_2.data,
                                 !.health_score_2 = health_score_2.value],
          shown |-> "success: Repository comparison completed",
          log |-> Tagged(r_1.log, parsed_1) \o Tagged(r_2.log, parsed_2)]

\* `if x:` on a session field that is None or a non-empty dictionary
IsSet(x) == x # None

\* the main content area of main(): which screen the session state renders
main_content(st) ==
    IF st.comparison_mode
    THEN IF IsSet(st.repo_data_1) /\ IsSet(st.repo_data_2)
         THEN "display_comparison_dashboard"
         ELSE "display_comparison_welcome_screen"
    ELSE IF IsSet(st.repo_data)
         THEN "display_dashboard"
         ELSE "display_welcome_screen"

\* the URLs typed into the text inputs
UrlHttps == HostHttps \o <<"o", "/", "r">>
UrlSshGit == HostSsh \o <<"o", "/", "x", ".", "g", "i", "t">>
UrlNoHost == <<"o", "/", "r">>
Urls == {UrlHttps, UrlSshGit, UrlNoHost}

\* the repository is missing, the supplementary data is refused, everything
\* is served, or the metadata carries a null counter
AppScenarios(today) ==
    LET ok == HttpResponse(200, PlainPayload(today, 2))
        null == HttpResponse(200, [PlainPayload(today, 2) EXCEPT !.stargazers_count = None])
        one == HttpResponse(200, ListBody(<<[id |-> 1]>>))
        commit == HttpResponse(200, ListBody(<<[date |-> J(Timestamp(today, "Z"))]>>))
        NR == NotRequested
    IN
    {Responses(HttpResponse(404, PlainPayload(today, 2)), NR, NR, NR, NR, NR, NR),
     Responses(ok, HttpResponse(403, NonListBody), NR, NR, NR, NR, NR),
     Responses(ok, one, one, commit, one, one, one),
     Responses(null, one, one, commit, one, one, one)}

\* the "Analyze Repository" button, with a non-empty URL in the text input
Analyze ==
    /\ ~session.comparison_mode
    /\ \E repo_url \in Urls : \E resp \in AppScenarios(now) :
         LET done == analyze_repository(repo_url, resp, session, now) IN
         /\ session' = done.session
         /\ requests' = done.log
         /\ ui' = [op |-> "analyze", urls |-> <<repo_url>>, shown |-> done.shown]
    /\ UNCHANGED <<now, responses, outcome, snapshot, health, health0, args, result>>

\* the "Compare Repositories" button, with two non-empty URLs
Compare ==
    /\ session.comparison_mode
    /\ \E repo_url_1 \in Urls : \E repo_url_2 \in Urls :
       \E resp_1 \in AppScenarios(now) : \E resp_2 \in AppScenarios(now) :
         LET done == compare_repositories(repo_url_1, repo_url_2, resp_1, resp_2,
                                          session, now) IN
         /\ session' = done.session
         /\ requests' = done.log
         /\ ui' = [op |-> "compare", urls |-> <<repo_url_1, repo_url_2>>,
                   shown |-> done.shown]
    /\ UNCHANGED <<now, responses, outcome, snapshot, health, health0, args, result>>

\* the "Clear Results" button
ClearResults ==
    /\ ~session.comparison_mode
    /\ session' = [session EXCEPT !.repo_data = None, !.health_score = None]
    /\ requests' = <<>>
    /\ ui' = [op |-> "clear", urls |-> <<>>, shown |-> "rerun"]
    /\ UNCHANGED <<now, responses, outcome, snapshot, health, health0, args, result>>

\* the "Clear Comparison" button
ClearComparison ==
    /\ session.comparison_mode
    /\ session' = [session EXCEPT !.repo_data_1 = None, !.health_score_1 = None,
                                  !.repo_data_2 = None, !.health_score_2 = None]
    /\ requests' = <<>>
    /\ ui' = [op |-> "clear", urls |-> <<>>, shown |-> "rerun"]
    /\ UNCHANGED <<now, responses, outcome, snapshot, health, health0, args, result>>

\* the "Select Analysis Mode" radio
SelectMode ==
    /\ session' = [session EXCEPT !.comparison_mode = ~@]
    /\ requests' = <<>>
    /\ ui' = [op |-> "mode", urls |-> <<>>, shown |-> "rerun"]
    /\ UNCHANGED <<now, responses, outcome, snapshot, health, health0, args, result>>

Init ==
    /\ now = 0
    /\ responses = NoResponses
    /\ requests = <<>>
    /\ outcome = Idle
    /\ snapshot = None
    /\ health = None
    /\ health0 = None
    /\ session = NoSession
    /\ ui = NoUi
    /\ args = None
    /\ result = None

Next == Analyze \/ Compare \/ ClearResults \/ ClearComparison \/ SelectMode

Spec == Init /\ [][Next]_vars

-----------------------------------------------------------------------------
(* The fetch helpers called on their own: args holds the collaborator's     *)
(* answers and the clock readings, result what the helper returned.         *)

MaxListLen == 3

\* the variables a call of a single function does not touch
NoApp ==
    /\ now = 0
    /\ responses = NoResponses
    /\ requests = <<>>
    /\ outcome = Idle
    /\ snapshot = None
    /\ health = None
    /\ health0 = None
    /\ session = NoSession
    /\ ui = NoUi

\* pull requests as the platform returns them (UTC, 'Z' suffix), with a
\* timestamp without offset, at the cutoff, before it, and without created_at
PullSamples(today) ==
    {[id |-> 1, created_at |-> J(Timestamp(today - 1, "Z"))],
     [id |-> 2, created_at |-> J(Timestamp(today - 1, ""))],
     [id |-> 3, created_at |-> J(Timestamp(today - DefaultDays, ""))],
     [id |-> 4, created_at |-> J(Timestamp(today - DefaultDays - 1, ""))],
     [id |-> 5, created_at |-> None]}

PullListAnswers(today) ==
    Failures(NonListBody) \cup {HttpResponse(200, NonListBody)}
    \cup {HttpResponse(200, ListBody(p)) : p \in SeqsUpTo(PullSamples(today), MaxPulls)}

InitPulls ==
    /\ NoApp
    /\ args \in [pulls_open : PullListAnswers(0), pulls_closed : PullListAnswers(0)]
    /\ result = None

CallRecentPulls ==
    /\ result = None
    /\ result' = Return(get_recent_pulls(args.pulls_open, args.pulls_closed, now).value)
    /\ UNCHANGED <<now, responses, requests, outcome, snapshot, health, health0, session, ui, args>>

SpecPulls == InitPulls /\ [][CallRecentPulls]_vars

\* issues, and pull requests as the issues endpoint lists them
IssueSamples ==
    {[id |-> 1], [id |-> 2], [id |-> 3, pull_request |-> J("url")],
     [id |-> 4, pull_request |-> None]}

IssueListAnswers ==
    Failures(NonListBody) \cup {HttpResponse(200, NonListBody)}
    \cup {HttpResponse(200, ListBody(i)) : i \in SeqsUpTo(IssueSamples, MaxListLen)}

InitIssues ==
    /\ NoApp
    /\ args \in [issues : IssueListAnswers]
    /\ result = None

CallRecentIssues ==
    /\ result = None
    /\ result' = Return(get_recent_issues(args.issues))
    /\ UNCHANGED <<now, responses, requests, outcome, snapshot, health, health0, session, ui, args>>

SpecIssues == InitIssues /\ [][CallRecentIssues]_vars

\* commits without an author date, of today, of the middle and of the first
\* day of the window, of the day before the window and of tomorrow
CommitSamples(today) ==
    {[date |-> None]}
    \cup {[date |-> J(Timestamp(today - back, "Z"))] :
            back \in {0, WindowDays \div 2 - 1, WindowDays - 1, WindowDays, 0 - 1}}

CommitListAnswers(today) ==
    Failures(NonListBody) \cup {HttpResponse(200, NonListBody)}
    \cup {HttpResponse(200, ListBody(c)) : c \in SeqsUpTo(CommitSamples(today), MaxListLen)}

InitCommits ==
    /\ NoApp
    /\ args \in [commits : CommitListAnswers(0),
                 clock : {ClockReads(0, midnight) : midnight \in Midnights}]
    /\ result = None

CallCommitActivity ==
    /\ result = None
    /\ result' = Return(get_commit_activity(args.commits, args.clock))
    /\ UNCHANGED <<now, responses, requests, outcome, snapshot, health, health0, session, ui, args>>

SpecCommits == InitCommits /\ [][CallCommitActivity]_vars

\* parse_repo_url on its own: URLs built from an owner and a repository name
MaxNameLen == 2

NamesOver(alphabet) == SeqsUpTo(alphabet, MaxNameLen) \ {<<>>}

HostOther == <<"h","t","t","p","s",":","/","/","g","i","t","l","a","b",".","c","o","m","/">>

\* with or without a trailing slash or a .git suffix
Suffixes == {<<>>, <<"/">>, <<".","g","i","t">>, <<".","g","i","t","/">>}

\* the accepted shapes, and strings of no accepted shape: another host, no
\* host, no repository name
ShapedUrls ==
    {[url |-> host \o owner \o <<"/">> \o repo \o suffix,
      owner |-> owner, repo |-> repo, shaped |-> TRUE] :
        host \in {HostHttps, HostHttp, HostSsh, HostBare},
        owner \in {<<"o">>, <<"a", "b">>},
        repo \in NamesOver({"r", "t"}),
        suffix \in Suffixes}

UnshapedUrls ==
    {[url |-> u, owner |-> <<>>, repo |-> <<>>, shaped |-> FALSE] :
        u \in {HostOther \o <<"o", "/", "r">>, <<"o", "/", "r">>, HostHttps \o <<"o">>,
               HostSsh \o <<"o">>, <<>>}}

InitParse ==
    /\ NoApp
    /\ args \in ShapedUrls \cup UnshapedUrls
    /\ result = None

CallParse ==
    /\ result = None
    /\ result' = Return(parse_repo_url(args.url))
    /\ UNCHANGED <<now, responses, requests, outcome, snapshot, health, health0, session, ui, args>>

SpecParse == InitParse /\ [][CallParse]_vars

\* The four sub-scores called on snapshots built from chosen counters
StarSamples ==
    (0..41) \cup {100, 101, 150, 200, 201, 500, 501, 1000, 1001,
                  22025, 22026, 22027, 30000, 100000}
ForkSamples == {0, 1, 2}
OpenIssueSamples == (0..11) \cup {20, 21, 25, 26, 50, 51}
CommitTotals == 0..159

\* a repository without contributors, features, license, description or
\* updated_at, with the given counters and all its commits on the last day
TermSnapshot(a) ==
    SetItem(SetItem(SetItem(SetItem(SetItem(
        Payload(J(a.stars), J(a.forks), J(0), J(a.open_issues), FALSE, FALSE,
                None, None, None),
        "contributors_count", J(0)),
        "open_prs_count", J(0)),
        "commit_activity",
            [j \in 1..WindowDays |->
                [date |-> j - WindowDays,
                 commits |-> IF j = WindowDays THEN a.commits ELSE 0]]),
        "recent_issues", <<>>),
        "recent_prs", <<>>)

TermInputs ==
    [stars : StarSamples, forks : ForkSamples, open_issues : OpenIssueSamples,
     commits : {0}]
    \cup [stars : {0, 100000}, forks : {0}, open_issues : {0}, commits : CommitTotals]

SubScores(repo_data, today) ==
    [activity_score |-> _calculate_activity_score(repo_data).value,
     popularity_score |-> _calculate_popularity_score(repo_data).value,
     community_score |-> _calculate_community_score(repo_data).value,
     maintenance_score |-> _calculate_maintenance_score(repo_data, today).value]

InitTerms ==
    /\ NoApp
    /\ args \in TermInputs
    /\ result = None

CallSubScores ==
    /\ result = None
    /\ result' = Return(SubScores(TermSnapshot(args), now))
    /\ UNCHANGED <<now, responses, requests, outcome, snapshot, health, health0, session, ui, args>>

SpecTerms == InitTerms /\ [][CallSubScores]_vars

-----------------------------------------------------------------------------
(* Claims about the aggregator, checked under SpecFetch *)

Range(seq) == {seq[k] : k \in 1..Len(seq)}

\* a fetch failed: transport failure, HTTP error status or undecodable body
Failed(response) ==
    response.exception \/ response.status_code >= 400 \/ response.json_error

SupplementaryKeys ==
    {"contributors_count", "open_prs_count", "commit_activity", "recent_issues", "recent_prs"}

\* C1: whatever the supplementary fetches answer after a successful base
\* fetch, the returned commit_activity has exactly 30 entries, dated with
\* consecutive calendar days that end today.
C1_CommitSeriesShape ==
    outcome.status = "returned" =>
        LET a == outcome.data.commit_activity IN
        /\ Len(a) = WindowDays
        /\ \A j \in 1..(Len(a) - 1) : a[j + 1].date = a[j].date + 1
        /\ a[Len(a)].date = now

\* C2: a failing supplementary fetch degrades only its own field: the other
\* fetches are still attempted and a field whose own fetch succeeded holds
\* the value derived from it.
C2_FailureIsolated ==
    outcome.status = "returned" =>
        /\ {PathContributors, PathPullsProbe, PathCommits, PathIssues, PathPullsOpen}
               \subseteq Range(requests)
        /\ (PathContributors \in Range(requests) /\ ~Failed(responses.contributors))
               => outcome.data.contributors_count = J(ListLen(responses.contributors.body))
        /\ (PathPullsProbe \in Range(requests) /\ ~Failed(responses.pulls_probe))
               => outcome.data.open_prs_count = J(ListLen(responses.pulls_probe.body))
        /\ (PathIssues \in Range(requests) /\ ~Failed(responses.issues))
               => outcome.data.recent_issues = get_recent_issues(responses.issues)

\* C3: once the base fetch has succeeded the call returns a snapshot, whatever
\* fails afterwards, and the snapshot has the five supplementary keys.
C3_DegradesNeverRaises ==
    (outcome.status # "idle" /\ ~Failed(responses.base)) =>
        /\ outcome.status = "returned"
        /\ SupplementaryKeys \subseteq DOMAIN outcome.data

\* after a successful base fetch and two answered probes, the commit log is
\* refused, the issues are not JSON and the network fails on the pulls
C3_Witness ==
    /\ outcome.status = "returned"
    /\ ~Failed(responses.base)
    /\ responses.commits.status_code = 403
    /\ responses.issues.json_error
    /\ responses.pulls_open.exception
    /\ SupplementaryKeys \subseteq DOMAIN outcome.data

\* C4: a failed base fetch is propagated: no snapshot, no further request;
\* every supplementary request comes after a successful base response.
C4_BaseFailureFatal ==
    /\ (outcome.status # "idle" /\ Failed(responses.base)) =>
           /\ outcome.status = "raised"
           /\ outcome.exc = make_request(responses.base).exc
           /\ requests = <<PathBase>>
    /\ \A k \in 1..Len(requests) :
           requests[k] \in SupplementaryPaths =>
               /\ ~Failed(responses.base)
               /\ \E j \in 1..(k - 1) : requests[j] = PathBase

C4_Witness ==
    /\ outcome.status = "raised"
    /\ responses.base.status_code = 404
    /\ outcome.msg = "Repository not found"
    /\ requests = <<PathBase>>

-----------------------------------------------------------------------------
(* Claims about the scorer, checked under SpecScore *)

Scored == health # None /\ ~health.result.raised

Counters ==
    {"stargazers_count", "forks_count", "watchers_count", "open_issues_count",
     "open_prs_count", "contributors_count"}

\* every counter of the snapshot is a non-negative integer
ValidCounters(repo_data) ==
    \A c \in Counters : c \in DOMAIN repo_data /\ ~repo_data[c].null /\ repo_data[c].v >= 0

InRange(x, lo, hi) == lo <= x /\ x <= hi

\* C6: on a snapshot with non-negative integer counters every sub-score is
\* within [0, 25] and total_score within [0, 100].
C6_ScoreRanges ==
    (health # None /\ ValidCounters(snapshot)) =>
        /\ ~health.result.raised
        /\ InRange(health.result.value.activity_score, 0, Pts(25, 1))
        /\ InRange(health.result.value.popularity_score, 0, Pts(25, 1))
        /\ InRange(health.result.value.community_score, 0, Pts(25, 1))
        /\ InRange(health.result.value.maintenance_score, 0, Pts(25, 1))
        /\ InRange(health.result.value.total_score, 0, Pts(100, 1))

\* all three popularity terms at their caps
C6_Witness ==
    /\ Scored
    /\ ValidCounters(snapshot)
    /\ snapshot.stargazers_count.v >= 22026
    /\ health.result.value.popularity_score = Pts(25, 1)
    /\ health.result.value.activity_score = Pts(25, 1)
    /\ health.result.value.maintenance_score = Pts(25, 1)

\* C7: total_score is the sum of the four returned sub-scores, and the clamp
\* to [0, 100] leaves that sum as it is.
C7_TotalIsSum ==
    Scored =>
        LET v == health.result.value
            sum == v.activity_score + v.popularity_score + v.community_score
                   + v.maintenance_score
        IN /\ v.total_score = Min(Pts(100, 1), Max(0, sum))
           /\ v.total_score = sum

C7_Witness ==
    /\ Scored
    /\ health.result.value.activity_score > 0
    /\ health.result.value.popularity_score > 0
    /\ health.result.value.community_score > 0
    /\ health.result.value.maintenance_score > 0
    /\ health.result.value.total_score =
           health.result.value.activity_score + health.result.value.popularity_score
           + health.result.value.community_score + health.result.value.maintenance_score

\* C8: two calls of calculate_health_score on the same snapshot, at any two
\* times, return the same result.
C8_Deterministic ==
    (health0 # None /\ health # None) => health.result = health0.result

\* C9: calculate_health_score raises on no snapshot that get_repository_data
\* returned, and its result has the five fields.
C9_ScorerTotal ==
    (outcome.status = "returned" /\ health # None) =>
        /\ ~health.result.raised
        /\ DOMAIN health.result.value =
               {"total_score", "activity_score", "popularity_score", "community_score",
                "maintenance_score"}

\* a snapshot with all counters 0, all flags false, empty series, scored more
\* than 365 days after updated_at
ZeroInput ==
    /\ health # None
    /\ \A c \in Counters : c \in DOMAIN snapshot /\ snapshot[c] = J(0)
    /\ \A f \in {"has_wiki", "has_issues", "has_projects", "has_pages", "archived"} :
           ~snapshot[f]
    /\ snapshot.commit_activity = <<>>
    /\ snapshot.recent_issues = <<>>
    /\ snapshot.recent_prs = <<>>
    /\ Present(snapshot.updated_at)
    /\ snapshot.updated_at.v.parses
    /\ health.day - snapshot.updated_at.v.day > 365

\* C10 as stated: on the zero input activity and popularity are 0 and the
\* maintenance score is the indicator term alone, 2 to 5, as is total_score.
C10_ZeroFloorIndicatorOnly ==
    ZeroInput =>
        /\ ~health.result.raised
        /\ health.result.value.activity_score = 0
        /\ health.result.value.popularity_score = 0
        /\ health.result.value.maintenance_score =
               IndicatorScore(FALSE, ~snapshot.license.null, Truthy(snapshot.description))
        /\ InRange(health.result.value.maintenance_score, Pts(2, 1), Pts(5, 1))
        /\ InRange(health.result.value.total_score, Pts(2, 1), Pts(5, 1))

\* C10 amended: on the zero input activity, popularity and community are 0
\* and the maintenance score is the 10 points of open_issues_count = 0 plus
\* the indicator term: 12 (no license, no description) to 15 (both); the
\* total equals it.
C10_ZeroFloor ==
    ZeroInput =>
        /\ ~health.result.raised
        /\ health.result.value.activity_score = 0
        /\ health.result.value.popularity_score = 0
        /\ health.result.value.community_score = 0
        /\ health.result.value.maintenance_score =
               Pts(10, 1)
               + (IF ~snapshot.license.null THEN Pts(3, 2) ELSE 0)
               + (IF Truthy(snapshot.description) THEN Pts(3, 2) ELSE 0)
               + Pts(2, 1)
        /\ InRange(health.result.value.maintenance_score, Pts(12, 1), Pts(15, 1))
        /\ health.result.value.total_score = health.result.value.maintenance_score

C10_Witness ==
    /\ ZeroInput
    /\ snapshot.license.null
    /\ snapshot.description.null
    /\ health.result.value.maintenance_score = Pts(12, 1)
    /\ health.result.value.total_score = Pts(12, 1)

-----------------------------------------------------------------------------
(* Claims about the fetch helpers, checked under SpecPulls, SpecIssues and  *)
(* SpecCommits, and about the aggregation as a whole                        *)

\* the elements of a response body that is a JSON array
ItemsOf(response) == IF response.body.isList THEN response.body.items ELSE <<>>

\* C11: when both pull-request list fetches succeed, get_recent_pulls returns
\* the open list followed by the closed list, keeping exactly the pull
\* requests created at or after the cutoff now - days.
C11_RecentPullsFiltered ==
    (result # None /\ ~Failed(args.pulls_open) /\ ~Failed(args.pulls_closed)) =>
        result.value =
            SelectSeq(ItemsOf(args.pulls_open) \o ItemsOf(args.pulls_closed),
                      LAMBDA pr : /\ ~pr.created_at.null
                                  /\ pr.created_at.v.day >= now - DefaultDays)

\* positions of the items of a list that carry no pull_request marker
Unmarked(issues) == {k \in 1..Len(issues) : "pull_request" \notin DOMAIN issues[k]}

\* C12: for a list payload of the issues endpoint, get_recent_issues returns
\* the items without a pull_request marker, all of them, in their original
\* order, and nothing else.
C12_IssuesFiltered ==
    (result # None /\ ~Failed(args.issues) /\ args.issues.body.isList) =>
        LET issues == args.issues.body.items
            kept == result.value
        IN /\ Len(kept) = Cardinality(Unmarked(issues))
           /\ \A k \in Unmarked(issues) :
                  kept[Cardinality({j \in Unmarked(issues) : j <= k})] = issues[k]
           /\ \A n \in 1..Len(kept) : "pull_request" \notin DOMAIN kept[n]

\* two issues with a pull request between them, and one with a null marker
C12_Witness ==
    /\ result # None
    /\ ~Failed(args.issues)
    /\ args.issues.body.items \in
           {<<[id |-> 2], [id |-> 3, pull_request |-> J("url")], [id |-> 1]>>,
            <<[id |-> 2], [id |-> 4, pull_request |-> None], [id |-> 1]>>}
    /\ result.value = <<[id |-> 2], [id |-> 1]>>

\* C13: every counter of a returned snapshot is present and is a
\* non-negative integer, never null.
C13_CountersValid ==
    outcome.status = "returned" => ValidCounters(outcome.data)

\* C14: one get_repository_data call requests no resource path twice and
\* issues at most seven requests, all among the seven paths.
C14_AtMostOnce ==
    /\ Len(requests) <= 7
    /\ \A j, k \in 1..Len(requests) : j # k => requests[j] # requests[k]
    /\ Range(requests) \subseteq {PathBase} \cup SupplementaryPaths

\* all seven requests, the last of which failed and was not repeated
C14_Witness ==
    /\ outcome.status = "returned"
    /\ requests = <<PathBase, PathContributors, PathPullsProbe, PathCommits, PathIssues,
                    PathPullsOpen, PathPullsClosed>>
    /\ Failed(responses.pulls_closed)
    /\ Failed(responses.commits)

C20_CommitBuckets ==
    (result # None /\ ~Failed(args.commits) /\ args.commits.body.isList) =>
        \E today \in {args.clock[0], args.clock[WindowDays - 1]} :
            LET a == result.value
                commits == args.commits.body.items
                Dated(d) == {k \in 1..Len(commits) :
                                ~commits[k].date.null /\ commits[k].date.v.day = d}
            IN /\ Len(a) = WindowDays
               /\ \A j \in 1..Len(a) :
                      /\ a[j].date = today - (WindowDays - j)
                      /\ a[j].commits = Cardinality(Dated(a[j].date))
               /\ \A k \in 1..Len(commits) :
                      (/\ ~commits[k].date.null
                       /\ commits[k].date.v.day > today - WindowDays
                       /\ commits[k].date.v.day <= today)
                      => Cardinality({j \in 1..Len(a) :
                                        a[j].date = commits[k].date.v.day}) = 1

-----------------------------------------------------------------------------
(* Claims about the terms of the sub-scores, checked under SpecScore and    *)
(* SpecTerms                                                                *)

\* the number of community features of a snapshot
FeatureCount(repo_data) ==
    Cardinality({f \in {"has_wiki", "has_issues", "has_projects", "has_pages"} :
                    repo_data[f]})

\* C15: with one contributor the contributors term is 0, as with none: the
\* community score is the ratio term plus the feature term; with two or more
\* contributors it is larger than that.
C15_LoneContributor ==
    (Scored /\ ValidCounters(snapshot)) =>
        LET contributors == snapshot.contributors_count.v
            community == health.result.value.community_score
            others == RatioScore(snapshot.stargazers_count.v, snapshot.forks_count.v)
                      + FeatureCount(snapshot) * Pts(5, 4)
            without == _calculate_community_score(
                           [snapshot EXCEPT !.contributors_count = J(0)]).value
        IN /\ contributors <= 1 => (community = others /\ community = without)
           /\ contributors >= 2 => (community > others /\ community > without)

\* one contributor, and a community score made of a ratio and four features
C15_Witness ==
    /\ Scored
    /\ ValidCounters(snapshot)
    /\ snapshot.contributors_count = J(1)
    /\ FeatureCount(snapshot) = 4
    /\ snapshot.stargazers_count.v > 0
    /\ health.result.value.community_score =
           RatioScore(snapshot.stargazers_count.v, snapshot.forks_count.v) + Pts(5, 1)

\* C16: a snapshot that differs only by more stars has a popularity score
\* that is not lower; one that differs only by more commits in the 30 days
\* has an activity score (here the commit term alone) that is not lower.
C16_Monotone ==
    result # None =>
        /\ \A more \in StarSamples :
               more >= args.stars =>
                   _calculate_popularity_score(
                       TermSnapshot([args EXCEPT !.stars = more])).value
                   >= result.value.popularity_score
        /\ \A more \in CommitTotals :
               more >= args.commits =>
                   _calculate_activity_score(
                       TermSnapshot([args EXCEPT !.commits = more])).value
                   >= result.value.activity_score

\* stars and commits beyond both caps
C16_Witness ==
    /\ result # None
    /\ args.stars = 100000
    /\ args.commits = 159
    /\ result.value.popularity_score = Pts(15, 1)
    /\ result.value.activity_score = Pts(10, 1)

\* the ratio term as the claim tabulates it, in points
RatioPoints(stars, forks) ==
    CASE stars = 0 -> 0
      [] stars > 0 /\ forks = 0 -> 2
      [] stars > 0 /\ forks > 0 /\ 2 * forks <= stars /\ stars <= 10 * forks -> 5
      [] stars > 0 /\ forks > 0 /\ forks <= stars /\ stars < 2 * forks -> 3
      [] stars > 0 /\ forks > 0 /\ 10 * forks < stars /\ stars <= 20 * forks -> 3
      [] stars > 0 /\ forks > 0 /\ (stars < forks \/ stars > 20 * forks) -> 1

\* C18: on a snapshot without contributors and features the community score
\* is the ratio term: 0 without stars, 2 with stars and no forks, else 5, 3
\* or 1 by the stars/forks ratio.
C18_RatioTerm ==
    result # None =>
        result.value.community_score = Pts(RatioPoints(args.stars, args.forks), 1)

\* the ratio exactly 2, which still scores 5
C18_Witness ==
    /\ result # None
    /\ args.forks = 2
    /\ args.stars = 4
    /\ result.value.community_score = Pts(5, 1)

\* the issue-load term as the claim tabulates it, in points; expected is
\* max(1, stars / 100), compared in hundredths
IssueLoadPoints(open_issues, stars) ==
    LET expected == IF stars > 100 THEN stars ELSE 100 IN
    CASE open_issues = 0 -> 10
      [] open_issues > 0 /\ 100 * open_issues <= expected -> 8
      [] 100 * open_issues > expected /\ 100 * open_issues <= 2 * expected -> 5
      [] 100 * open_issues > 2 * expected /\ 100 * open_issues <= 5 * expected -> 2
      [] 100 * open_issues > 5 * expected -> 0

\* C19: on a snapshot with no updated_at, license or description the
\* maintenance score is the issue-load term plus the 2 points of a repository
\* that is not archived; the term follows the table, does not rise with more
\* open issues and does not fall with more stars.
C19_IssueLoadTerm ==
    result # None =>
        LET term == result.value.maintenance_score - Pts(2, 1)
            TermOf(a) ==
                _calculate_maintenance_score(TermSnapshot(a), now).value - Pts(2, 1)
        IN /\ term = Pts(IssueLoadPoints(args.open_issues, args.stars), 1)
           /\ \A more \in OpenIssueSamples :
                  more >= args.open_issues =>
                      TermOf([args EXCEPT !.open_issues = more]) <= term
           /\ \A more \in StarSamples :
                  more >= args.stars =>
                      TermOf([args EXCEPT !.stars = more]) >= term

\* 150 stars: expected is 1.5, so three open issues are within twice it
C19_Witness ==
    /\ result # None
    /\ args.stars = 150
    /\ args.open_issues = 3
    /\ result.value.maintenance_score = Pts(5, 1) + Pts(2, 1)

-----------------------------------------------------------------------------
(* Claims about the handlers, checked under Spec *)

InvalidUrlShown ==
    {"error: Invalid GitHub repository URL", "error: Invalid first repository URL",
     "error: Invalid second repository URL"}

\* C5: when a URL of the analysis or of the comparison does not parse, the
\* handler ends with the validation error and has issued no request, for
\* either repository.
C5_InvalidUrlNoFetch ==
    (ui.op \in {"analyze", "compare"}
     /\ \E k \in 1..Len(ui.urls) : ~parse_repo_url(ui.urls[k]).matched) =>
        /\ ui.shown \in InvalidUrlShown
        /\ requests = <<>>

\* a comparison whose first URL is valid and whose second is not
C5_Witness ==
    /\ ui.op = "compare"
    /\ parse_repo_url(ui.urls[1]).matched
    /\ ~parse_repo_url(ui.urls[2]).matched
    /\ ui.shown = "error: Invalid second repository URL"
    /\ requests = <<>>

\* the messages of st.success
SuccessShown ==
    {"success: Repository analysis completed", "success: Repository comparison completed"}

\* C22: a call of analyze_repository or compare_repositories that ends in an
\* error leaves every session field as it was; one that succeeds has set
\* the repository data and the score of each repository it analysed.
C22_AllOrNothing ==
    [][/\ (ui'.op \in {"analyze", "compare"} /\ ui'.shown \notin SuccessShown)
           => session' = session
       /\ (ui'.op = "analyze" /\ ui'.shown \in SuccessShown)
           => (IsSet(session'.repo_data) /\ IsSet(session'.health_score))
       /\ (ui'.op = "compare" /\ ui'.shown \in SuccessShown)
           => (/\ IsSet(session'.repo_data_1) /\ IsSet(session'.health_score_1)
               /\ IsSet(session'.repo_data_2) /\ IsSet(session'.health_score_2))]_vars

\* a comparison whose first repository was fetched in full and whose second
\* is not found: nothing of the first is stored
C22_Witness ==
    /\ ui.op = "compare"
    /\ ui.shown = "error: API"
    /\ Len(requests) = 8
    /\ requests[8].path = PathBase
    /\ session.repo_data_1 = None
    /\ session.health_score_1 = None

\* C23: the session keeps results paired: repo_data is None exactly when
\* health_score is, the four comparison fields are all None or all set, and
\* a dashboard is rendered only with a score for each snapshot it shows.
C23_ResultsPaired ==
    /\ IsSet(session.repo_data) <=> IsSet(session.health_score)
    /\ \A f \in {"health_score_1", "repo_data_2", "health_score_2"} :
           IsSet(session[f]) <=> IsSet(session.repo_data_1)
    /\ main_content(session) = "display_dashboard" => IsSet(session.health_score)
    /\ main_content(session) = "display_comparison_dashboard" =>
           (IsSet(session.health_score_1) /\ IsSet(session.health_score_2))

\* after a successful analysis, a mode switch and a failed comparison: the
\* single result is kept and paired, the comparison fields are all None
C23_Witness ==
    /\ ui.op = "compare"
    /\ ui.shown = "error: Unexpected error"
    /\ IsSet(session.repo_data)
    /\ IsSet(session.health_score)
    /\ session.repo_data_1 = None
    /\ session.repo_data_2 = None
    /\ main_content(session) = "display_comparison_welcome_screen"

====
